---- MODULE Spec2Model ----
(***************************************************************************)
(* A model of the C-extension compatibility layer of TruffleRuby:          *)
(*   src/main/c/cext/call.c    calling Ruby methods and blocks from C      *)
(*   src/main/c/cext/ivar.c    instance variables                          *)
(*   src/main/c/cext/printf.c  *printf* functions                          *)
(* Every native function is a thin wrapper around polyglot_invoke; the     *)
(* model records, for every call of a wrapper, the sequence of bridge      *)
(* invocations it issues (target, operation name, raw arguments) and how   *)
(* the call ends.  The host runtime behind the bridge is an environment.   *)
(***************************************************************************)
EXTENDS Integers, Sequences, FiniteSets, TLC

VARIABLES
  frame,   \* the active block of the native frame that calls the wrappers, or nil
  call,    \* the last finished call of a function of call.c
  prev,    \* the block-forwarder call finished before it
  gvl,     \* the running blocking-region call (rb_thread_call_with[out]_gvl)
  ivars,   \* the host's instance variables: object -> name -> value
  lastSet, \* for each object and name, the value the extension last set
  iv,      \* the last finished call of a function of ivar.c
  fmt      \* the last finished call of a function of printf.c

callVars == <<frame, call, prev>>
gvlVars == <<gvl>>
ivarVars == <<ivars, lastSet, iv>>
fmtVars == <<fmt>>
vars == <<frame, call, prev, gvl, ivars, lastSet, iv, fmt>>

-----------------------------------------------------------------------------
(* Bounds *)

\* longest argument list handed to a variadic wrapper
MaxArgs == 2

\* cancellations the host issues during one blocking region
MaxCancels == 2

\* longest format string
MaxFormat == 3

SeqsUpTo(S, n) == UNION {[1..k -> S] : k \in 0..n}

-----------------------------------------------------------------------------
(* Handle layer: a VALUE is an opaque native token for a managed reference *)

NilRef == <<"nil", "nil">>

rb_tr_wrap(ref) == <<"VALUE", ref>>

rb_tr_unwrap(handle) == handle[2]

Qnil == rb_tr_wrap(NilRef)

NIL_P(handle) == handle = Qnil

UnwrapAll(handles) == [i \in 1..Len(handles) |-> rb_tr_unwrap(handles[i])]

\* managed references the extension works with
ProcRefs == {<<"proc", "p1">>}
ValRefs == {<<"val", "v1">>, <<"val", "v2">>}
ObjRef == <<"obj", "o1">>
Frames == ProcRefs \cup {NilRef}

\* native function pointers
NullFn == <<"fnptr", "NULL">>
BlockFns == {NullFn, <<"fnptr", "f1">>}

\* the symbol table: an ID is the position of its name
IdTable == <<"each", "m", "@a", "@b">>

rb_intern(name) == CHOOSE i \in 1..Len(IdTable) : IdTable[i] = name

ID2SYM(id) == rb_tr_wrap(<<"sym", IdTable[id]>>)

\* an array holds the VALUEs stored into it
rb_ary_new4(n, argv) == rb_tr_wrap(<<"ary", [i \in 1..n |-> argv[i]]>>)

rb_ary_new_capa(n) == rb_tr_wrap(<<"ary", <<>>>>)

\* rb_ary_store(ary, idx, val): ary[idx] = val, the array grown with nil
rb_ary_store(ary, idx, val) ==
  LET old == rb_tr_unwrap(ary)[2]
      len == IF idx + 1 > Len(old) THEN idx + 1 ELSE Len(old)
  IN rb_tr_wrap(<<"ary", [i \in 1..len |->
        IF i = idx + 1 THEN val
        ELSE IF i <= Len(old) THEN old[i] ELSE Qnil]>>)

-----------------------------------------------------------------------------
(* The bridge and the host behind it *)

RUBY_CEXT == <<"cext", "RUBY_CEXT">>

NoErr == [class |-> "none", msg |-> "none", builtBy |-> "none"]

HostModes == {"ok", "error", "returns"}

Invocation(target, name, args) == [target |-> target, name |-> name, args |-> args]

\* what the host does with one bridge invocation made while `fr` is the
\* active block of the calling frame; `mode` is the host's choice
Host(inv, fr, mode) ==
  LET done(ret, blk) == [outcome |-> "return", ret |-> ret, blk |-> blk, err |-> NoErr]
      hostError == [outcome |-> "raise", ret |-> NilRef, blk |-> NilRef,
                    err |-> [class |-> "StandardError", msg |-> "host", builtBy |-> "host"]]
  IN CASE inv.name = "rb_block_proc" -> done(fr, NilRef)
       [] inv.name = "yield_no_block" ->
            [outcome |-> "raise", ret |-> NilRef, blk |-> NilRef,
             err |-> [class |-> "LocalJumpError", msg |-> "no block given", builtBy |-> "host"]]
       [] inv.name = "rb_iter_break_value" ->
            IF mode = "returns" THEN done(NilRef, NilRef)
            ELSE [outcome |-> "break", ret |-> inv.args[1], blk |-> NilRef, err |-> NoErr]
       [] inv.name = "rb_arity_error_string" ->
            IF mode = "error" THEN hostError ELSE done(<<"str", "arity">>, NilRef)
       [] inv.name \in {"rb_yield", "rb_yield_splat"} ->
            IF mode = "error" THEN hostError ELSE done(<<"val", "yielded">>, fr)
       [] inv.name = "rb_funcall_with_block" ->
            IF mode = "error" THEN hostError ELSE done(inv.args[1], inv.args[4])
       [] inv.name = "rb_block_call" ->
            IF mode = "error" THEN hostError ELSE done(inv.args[1], inv.args[4])
       [] inv.name \in {"rb_funcallv", "each"} ->
            IF mode = "error" THEN hostError ELSE done(<<"val", "enum">>, NilRef)
       [] OTHER -> hostError

\* the result of a wrapper: the bridge invocations in order, how it ended
\* (return, raise, break, fatal), the returned VALUE, the block that got the
\* yielded values, the error, and the array handed to rb_yield_splat
Result(trace, outcome, ret, blk, err) ==
  [trace |-> trace, outcome |-> outcome, ret |-> ret, blk |-> blk, err |-> err,
   splat |-> Qnil]

polyglot_invoke(target, name, args, fr, mode) ==
  LET inv == Invocation(target, name, args)
      h == Host(inv, fr, mode)
  IN Result(<<inv>>, h.outcome, h.ret, h.blk, h.err)

WrapRet(r) == [r EXCEPT !.ret = rb_tr_wrap(@)]

\* RUBY_CEXT_INVOKE: unwrap the VALUE arguments, invoke, wrap the result
RUBY_CEXT_INVOKE(name, handles, fr, mode) ==
  WrapRet(polyglot_invoke(RUBY_CEXT, name, UnwrapAll(handles), fr, mode))

\* RUBY_INVOKE: the same on a receiver instead of the cext module
RUBY_INVOKE(recv, name, handles, fr, mode) ==
  WrapRet(polyglot_invoke(rb_tr_unwrap(recv), name, UnwrapAll(handles), fr, mode))

\* r1 then r2: r2 runs only when r1 returned
Then(r1, r2) ==
  IF r1.outcome = "return" THEN [r2 EXCEPT !.trace = r1.trace \o @] ELSE r1

Fatal(r) == [r EXCEPT !.outcome = "fatal", !.ret = Qnil]

-----------------------------------------------------------------------------
(* call.c *)

\* rb_block_proc(): the active block of the calling frame, or nil
rb_block_proc(fr) == RUBY_CEXT_INVOKE("rb_block_proc", <<>>, fr, "ok")

\* the negation forgotten
rb_block_given_p_Inverted(fr) == NIL_P(rb_block_proc(fr).ret)

\* rb_block_given_p(): !NIL_P(rb_block_proc())
rb_block_given_p(fr) == ~NIL_P(rb_block_proc(fr).ret)

rb_funcallv(object, name, args, fr, mode) ==
  RUBY_CEXT_INVOKE("rb_funcallv", <<object, ID2SYM(name), rb_ary_new4(Len(args), args)>>,
                   fr, mode)

rb_funcall_with_block(recv, mid, argv, pass_procval, fr, mode) ==
  RUBY_CEXT_INVOKE("rb_funcall_with_block",
                   <<recv, ID2SYM(mid), rb_ary_new4(Len(argv), argv), pass_procval>>,
                   fr, mode)

\* the generic branch of rb_block_call: the native callback and its data
\* cross the bridge raw
BlockCallGeneric(object, name, args, block_call_func, data, fr, mode) ==
  WrapRet(polyglot_invoke(RUBY_CEXT, "rb_block_call",
            <<rb_tr_unwrap(object), rb_tr_unwrap(ID2SYM(name)),
              rb_tr_unwrap(rb_ary_new4(Len(args), args)), block_call_func, data>>,
            fr, mode))

rb_block_call(object, name, args, block_call_func, data, fr, mode) ==
  IF rb_block_given_p(fr)
  THEN Then(rb_block_proc(fr),
         Then(rb_block_proc(fr),
           rb_funcall_with_block(object, name, args, rb_block_proc(fr).ret, fr, mode)))
  ELSE IF block_call_func = NullFn
  THEN Then(rb_block_proc(fr), rb_funcallv(object, name, args, fr, mode))
  ELSE Then(rb_block_proc(fr),
            BlockCallGeneric(object, name, args, block_call_func, data, fr, mode))

rb_each(array, fr, mode) ==
  IF rb_block_given_p(fr)
  THEN Then(rb_block_proc(fr),
         Then(rb_block_proc(fr),
           rb_funcall_with_block(array, rb_intern("each"), <<>>, rb_block_proc(fr).ret,
                                 fr, mode)))
  ELSE Then(rb_block_proc(fr), RUBY_INVOKE(array, "each", <<>>, fr, mode))

\* the missing-block error built natively instead of by yield_no_block
rb_yield_RaisesNatively(value, fr, mode) ==
  IF rb_block_given_p(fr)
  THEN Then(rb_block_proc(fr), RUBY_CEXT_INVOKE("rb_yield", <<value>>, fr, mode))
  ELSE Then(rb_block_proc(fr),
            Result(<<>>, "raise", Qnil, NilRef,
                   [class |-> "LocalJumpError", msg |-> "no block given",
                    builtBy |-> "native"]))

rb_yield(value, fr, mode) ==
  IF rb_block_given_p(fr)
  THEN Then(rb_block_proc(fr), RUBY_CEXT_INVOKE("rb_yield", <<value>>, fr, mode))
  ELSE Then(rb_block_proc(fr), RUBY_CEXT_INVOKE("yield_no_block", <<>>, fr, mode))

rb_yield_splat(values, fr, mode) ==
  LET r == IF rb_block_given_p(fr)
           THEN Then(rb_block_proc(fr),
                     RUBY_CEXT_INVOKE("rb_yield_splat", <<values>>, fr, mode))
           ELSE Then(rb_block_proc(fr),
                     RUBY_CEXT_INVOKE("yield_no_block", <<>>, fr, mode))
  IN [r EXCEPT !.splat = values]

\* polyglot_get_arg(i): the i-th argument of the running function, from 0
polyglot_get_arg(callArgs, i) == callArgs[i + 1]

\* the count n taken for the first value
VarargIndex_FromZero(i) == i

\* the position of the i-th yielded value among rb_yield_values' arguments
VarargIndex(i) == 1 + i

RECURSIVE YieldValuesLoop(_, _, _, _)
YieldValuesLoop(values, i, n, callArgs) ==
  IF i < n
  THEN YieldValuesLoop(rb_ary_store(values, i, polyglot_get_arg(callArgs, VarargIndex(i))),
                       i + 1, n, callArgs)
  ELSE values

\* rb_yield_values(n, ...): callArgs is the whole argument list, n first
rb_yield_values(n, callArgs, fr, mode) ==
  rb_yield_splat(YieldValuesLoop(rb_ary_new_capa(n), 0, n, callArgs), fr, mode)

RECURSIVE YieldValues2Loop(_, _, _, _)
YieldValues2Loop(values, i, n, argv) ==
  IF i < n
  THEN YieldValues2Loop(rb_ary_store(values, i, argv[i + 1]), i + 1, n, argv)
  ELSE values

rb_yield_values2(n, argv, fr, mode) ==
  rb_yield_splat(YieldValues2Loop(rb_ary_new_capa(n), 0, n, argv), fr, mode)

\* rb_raise(class, message): the native layer builds the exception
rb_raise(class, msg) ==
  Result(<<>>, "raise", Qnil, NilRef, [class |-> class, msg |-> msg, builtBy |-> "native"])

rb_need_block(fr) ==
  IF ~rb_block_given_p(fr)
  THEN Then(rb_block_proc(fr), rb_raise("LocalJumpError", "no block given"))
  ELSE [rb_block_proc(fr) EXCEPT !.ret = Qnil]

\* rb_tr_error(message): fatal, the process aborts
rb_tr_error(r) == Fatal(r)

\* the wrapper without its rb_tr_error line
rb_iter_break_value_Unguarded(value, fr, mode) ==
  WrapRet(polyglot_invoke(RUBY_CEXT, "rb_iter_break_value", <<rb_tr_unwrap(value)>>,
                          fr, mode))

rb_iter_break_value(value, fr, mode) ==
  LET r == polyglot_invoke(RUBY_CEXT, "rb_iter_break_value", <<rb_tr_unwrap(value)>>,
                           fr, mode)
  IN IF r.outcome = "return" THEN rb_tr_error(r) ELSE WrapRet(r)

rb_iter_break(fr, mode) == rb_iter_break_value(Qnil, fr, mode)

\* rb_exc_raise(rb_exc_new3(rb_eArgError, message)): the message is the host's
rb_error_arity(argc, min, max, fr, mode) ==
  LET s == polyglot_invoke(RUBY_CEXT, "rb_arity_error_string",
                           <<<<"int", argc>>, <<"int", min>>, <<"int", max>>>>, fr, mode)
  IN IF s.outcome = "return"
     THEN [s EXCEPT !.outcome = "raise", !.ret = Qnil,
                    !.err = [class |-> "ArgumentError", msg |-> s.ret[2], builtBy |-> "host"]]
     ELSE WrapRet(s)

-----------------------------------------------------------------------------
(* call.c: the blocking-region helpers *)

\* the sentinel ((rb_unblock_function_t *)-1) and the pointers of the model
RUBY_UBF_IO == <<"fnptr", "RUBY_UBF_IO">>
call_gvl_call_function == <<"fnptr", "call_gvl_call_function">>
call_unblock_function == <<"fnptr", "call_unblock_function">>
CallStructPtr == <<"ptr", "call_struct">>
UnblockStructPtr == <<"ptr", "unblock_struct">>
NoStruct == [function |-> NullFn, data |-> <<"ptr", "none">>]

GvlFunctions == {<<"fnptr", "work1">>, <<"fnptr", "work2">>}
UnblockFunctions == {NullFn, RUBY_UBF_IO, <<"fnptr", "ubf1">>}
Data1 == {<<"ptr", "d1">>, <<"ptr", "d1b">>}
Data2 == {<<"ptr", "d2">>}

\* every unblock function wrapped, the sentinel too
WrappedUnblockFunction_NoSentinel(unblock_function) == call_unblock_function

\* lines 133-138: what stands for the unblock function on the bridge
WrappedUnblockFunction(unblock_function) ==
  IF unblock_function = RUBY_UBF_IO THEN rb_tr_unwrap(Qnil) ELSE call_unblock_function

\* the native function handed over as it is
WithoutGvlArgs_Direct(function, data1, unblock_function, data2) ==
  <<function, data1, WrappedUnblockFunction(unblock_function), UnblockStructPtr>>

\* lines 140-142: the arguments of the bridge invocation
WithoutGvlArgs(function, data1, unblock_function, data2) ==
  <<call_gvl_call_function, CallStructPtr,
    WrappedUnblockFunction(unblock_function), UnblockStructPtr>>

WithGvlArgs(function, data1) == <<function, data1>>

GvlIdle ==
  [pc |-> "idle", op |-> "none", function |-> NullFn, data1 |-> <<"ptr", "none">>,
   unblock_function |-> NullFn, data2 |-> <<"ptr", "none">>,
   bridge |-> <<>>, call_struct |-> NoStruct, unblock_struct |-> NoStruct,
   live |-> FALSE, started |-> FALSE, finished |-> FALSE, cancels |-> 0,
   defaults |-> 0, ran |-> <<>>]

-----------------------------------------------------------------------------
(* ivar.c *)

IvObjects == {<<"obj", "o1">>, <<"obj", "o2">>}
IvNames == {"@a", "@b"}
IvValues == {rb_tr_wrap(v) : v \in ValRefs}
Undef == <<"undef", "undef">>
NoIvars == [o \in IvObjects |-> [name \in IvNames |-> Undef]]

rb_str_new_cstr(cstr) == rb_tr_wrap(<<"str", cstr>>)

\* rb_to_id(string): the ID of the string's contents
rb_to_id(str) == rb_intern(rb_tr_unwrap(str)[2])

\* how the host treats a name that reaches it as a raw C string
KeyModes == {"by_name", "no_key"}

\* the host's instance-variable operations on its store: the result and the
\* store after it
HostIvar(inv, store, mode) ==
  LET obj == inv.args[1]
      key == inv.args[2]
      named == key[1] = "sym" \/ (key[1] = "cstr" /\ mode = "by_name")
      defined == named /\ store[obj][key[2]] # Undef
  IN CASE inv.name = "rb_ivar_set" ->
            [ret |-> inv.args[3],
             store |-> [store EXCEPT ![obj][key[2]] = inv.args[3]]]
       [] inv.name = "rb_ivar_get" ->
            [ret |-> IF defined THEN store[obj][key[2]] ELSE NilRef, store |-> store]
       [] inv.name = "rb_ivar_lookup" ->
            [ret |-> IF defined THEN store[obj][key[2]] ELSE inv.args[3], store |-> store]

IvResult(inv, h, ret) == [trace |-> <<inv>>, ret |-> ret, store |-> h.store]

\* RUBY_CEXT_INVOKE on the instance-variable store
IvInvoke(name, handles, store, mode) ==
  LET inv == Invocation(RUBY_CEXT, name, UnwrapAll(handles))
      h == HostIvar(inv, store, mode)
  IN IvResult(inv, h, rb_tr_wrap(h.ret))

\* the C string handed over without its conversion to a symbol
rb_iv_get_RawName(object, name, store, mode) ==
  LET inv == Invocation(RUBY_CEXT, "rb_ivar_get", <<rb_tr_unwrap(object), <<"cstr", name>>>>)
      h == HostIvar(inv, store, "no_key")
  IN IvResult(inv, h, rb_tr_wrap(h.ret))

rb_iv_get(object, name, store, mode) ==
  IvInvoke("rb_ivar_get", <<object, ID2SYM(rb_to_id(rb_str_new_cstr(name)))>>, store, mode)

\* RUBY_CEXT_INVOKE_NO_WRAP, then `return value`
rb_iv_set(object, name, value, store, mode) ==
  [IvInvoke("rb_ivar_set", <<object, ID2SYM(rb_to_id(rb_str_new_cstr(name))), value>>,
            store, mode) EXCEPT !.ret = value]

rb_ivar_get(object, name, store, mode) ==
  IvInvoke("rb_ivar_get", <<object, ID2SYM(name)>>, store, mode)

rb_ivar_set(object, name, value, store, mode) ==
  [IvInvoke("rb_ivar_set", <<object, ID2SYM(name), value>>, store, mode)
     EXCEPT !.ret = value]

\* the name crosses the bridge as the raw C string
rb_ivar_lookup(object, name, default_value, store, mode) ==
  LET inv == Invocation(RUBY_CEXT, "rb_ivar_lookup",
                        <<rb_tr_unwrap(object), <<"cstr", name>>,
                          rb_tr_unwrap(default_value)>>)
      h == HostIvar(inv, store, mode)
  IN IvResult(inv, h, rb_tr_wrap(h.ret))

rb_attr_get(object, name, store, mode) ==
  IvInvoke("rb_ivar_lookup", <<object, ID2SYM(name), Qnil>>, store, mode)

NoIvCall ==
  [op |-> "none", object |-> rb_tr_wrap(ObjRef), name |-> "@a", value |-> Qnil,
   default |-> Qnil, wasSet |-> Undef, ret |-> Qnil, trace |-> <<>>]

-----------------------------------------------------------------------------
(* printf.c *)

\* the bytes of a format string: the percent sign, and d, a plain byte that
\* after a percent sign asks for the conversion of an int argument
FormatBytes == {"d", "%"}
Encodings == {"UTF-8", "US-ASCII"}

rb_ascii8bit_encoding == "ASCII-8BIT"

\* the output of the conversions of format from position i on, with no
\* argument left to convert: <<TRUE, bytes>>, or <<FALSE, _>> where the C
\* library's behaviour is undefined (a conversion without its argument, an
\* unknown or unfinished conversion)
RECURSIVE Expand(_, _)
Expand(format, i) ==
  IF i > Len(format) THEN <<TRUE, <<>>>>
  ELSE IF format[i] # "%"
  THEN LET rest == Expand(format, i + 1) IN <<rest[1], <<format[i]>> \o rest[2]>>
  ELSE IF i < Len(format) /\ format[i + 1] = "%"
  THEN LET rest == Expand(format, i + 2) IN <<rest[1], <<"%">> \o rest[2]>>
  ELSE <<FALSE, <<>>>>

\* vasprintf(&buffer, format, args) with an empty args: the count it returns
\* (negative on failure) and the buffer; it may fail for want of memory
vasprintf(format) ==
  LET e == Expand(format, 1)
      failure == [rc |-> 0 - 1, buffer |-> <<>>, crash |-> FALSE]
  IN IF e[1]
     THEN {[rc |-> Len(e[2]), buffer |-> e[2], crash |-> FALSE], failure}
     ELSE {[rc |-> 1, buffer |-> <<"?">>, crash |-> FALSE],
           [rc |-> Len(format), buffer |-> format, crash |-> FALSE],
           [rc |-> 0, buffer |-> <<>>, crash |-> TRUE],
           failure}

rb_enc_str_new_cstr(buffer, enc) == [bytes |-> buffer, enc |-> enc]

NoString == [bytes |-> <<>>, enc |-> "none"]

\* v is what vasprintf did
rb_enc_vsprintf(enc, format, v) ==
  IF v.crash THEN [outcome |-> "crash", string |-> NoString]
  ELSE IF v.rc < 0 THEN [outcome |-> "fatal", string |-> NoString]
  ELSE [outcome |-> "return", string |-> rb_enc_str_new_cstr(v.buffer, enc)]

rb_enc_sprintf(enc, format, v) == rb_enc_vsprintf(enc, format, v)

\* the default taken from the text encoding
rb_vsprintf_TextEncoding(format, v) == rb_enc_vsprintf("UTF-8", format, v)

rb_vsprintf(format, v) == rb_enc_vsprintf(rb_ascii8bit_encoding, format, v)

rb_sprintf(format, v) == rb_vsprintf(format, v)

Formats == SeqsUpTo(FormatBytes, MaxFormat)

NoFmtCall ==
  [op |-> "none", enc |-> "none", format |-> <<>>, rc |-> 0, outcome |-> "return",
   string |-> NoString]

-----------------------------------------------------------------------------
(* The calls an extension makes, one action per function of call.c *)

Values == {rb_tr_wrap(v) : v \in ValRefs}
ArgLists == SeqsUpTo(Values, MaxArgs)
Arities == {0 - 1, 0, 1}

NoCall == [op |-> "none", n |-> 0, args |-> <<>>, func |-> NullFn, frame |-> NilRef,
           mode |-> "ok"]
          @@ Result(<<>>, "return", Qnil, NilRef, NoErr)

\* the record of a finished call: what was called, with what, and its result
Done(op, n, args, func, mode, r) ==
  [op |-> op, n |-> n, args |-> args, func |-> func, frame |-> frame, mode |-> mode] @@ r

Finish(rec) == call' = rec /\ UNCHANGED <<frame, prev, gvlVars, ivarVars, fmtVars>>

\* the host calls the extension function with or without a block
EnterFrame == \E b \in Frames : frame' = b /\ UNCHANGED <<call, prev, gvlVars, ivarVars, fmtVars>>

Call_rb_yield ==
  \E v \in Values, m \in {"ok", "error"} :
    Finish(Done("rb_yield", 1, <<v>>, NullFn, m, rb_yield(v, frame, m)))

Call_rb_yield_splat ==
  \E a \in ArgLists, m \in {"ok", "error"} :
    Finish(Done("rb_yield_splat", Len(a), a, NullFn, m,
                rb_yield_splat(rb_ary_new4(Len(a), a), frame, m)))

Call_rb_yield_values ==
  \E a \in ArgLists, m \in {"ok", "error"} : \E n \in 0..Len(a) :
    Finish(Done("rb_yield_values", n, a, NullFn, m,
                rb_yield_values(n, <<<<"int", n>>>> \o a, frame, m)))

Call_rb_yield_values2 ==
  \E a \in ArgLists, m \in {"ok", "error"} : \E n \in 0..Len(a) :
    Finish(Done("rb_yield_values2", n, a, NullFn, m, rb_yield_values2(n, a, frame, m)))

EachRecord(m) ==
  Done("rb_each", 0, <<>>, NullFn, m, rb_each(rb_tr_wrap(ObjRef), frame, m))

BlockCallRecord(a, f, m) ==
  Done("rb_block_call", Len(a), a, f, m,
       rb_block_call(rb_tr_wrap(ObjRef), rb_intern("m"), a, f,
                     rb_tr_wrap(<<"val", "data">>), frame, m))

Call_rb_each == \E m \in {"ok", "error"} : Finish(EachRecord(m))

Call_rb_block_call ==
  \E a \in ArgLists, f \in BlockFns, m \in {"ok", "error"} :
    Finish(BlockCallRecord(a, f, m))

Call_rb_need_block ==
  Finish(Done("rb_need_block", 0, <<>>, NullFn, "ok", rb_need_block(frame)))

Call_rb_error_arity ==
  \E argc \in Arities, min \in Arities, max \in Arities, m \in {"ok", "error"} :
    Finish(Done("rb_error_arity", argc, <<>>, NullFn, m,
                rb_error_arity(argc, min, max, frame, m)))

Call_rb_iter_break ==
  \E m \in {"ok", "returns"} :
    Finish(Done("rb_iter_break", 0, <<>>, NullFn, m, rb_iter_break(frame, m)))

Call_rb_iter_break_value ==
  \E v \in Values, m \in {"ok", "returns"} :
    Finish(Done("rb_iter_break_value", 1, <<v>>, NullFn, m, rb_iter_break_value(v, frame, m)))


Init ==
  /\ frame = NilRef /\ call = NoCall /\ prev = NoCall
  /\ gvl = GvlIdle
  /\ ivars = NoIvars /\ lastSet = NoIvars /\ iv = NoIvCall
  /\ fmt = NoFmtCall

CallNext ==
  \/ EnterFrame
  \/ Call_rb_yield
  \/ Call_rb_yield_splat
  \/ Call_rb_yield_values
  \/ Call_rb_yield_values2
  \/ Call_rb_each
  \/ Call_rb_block_call
  \/ Call_rb_need_block
  \/ Call_rb_error_arity
  \/ Call_rb_iter_break
  \/ Call_rb_iter_break_value

SpecCall == Init /\ [][CallNext]_vars

\* the block forwarders alone, each call kept next to the one before it
FinishAfter(rec) == call' = rec /\ prev' = call /\ UNCHANGED <<frame, gvlVars, ivarVars, fmtVars>>

Again_rb_each == \E m \in {"ok", "error"} : FinishAfter(EachRecord(m))

Again_rb_block_call ==
  \E a \in ArgLists, f \in BlockFns, m \in {"ok", "error"} :
    FinishAfter(BlockCallRecord(a, f, m))

BlockNext == EnterFrame \/ Again_rb_each \/ Again_rb_block_call

SpecBlock == Init /\ [][BlockNext]_vars

-----------------------------------------------------------------------------
(* Properties of the block forwarders and the raisers *)

Forwarders ==
  {"rb_yield", "rb_yield_splat", "rb_yield_values", "rb_yield_values2", "rb_each",
   "rb_block_call"}

YieldFamily == {"rb_yield", "rb_yield_splat", "rb_yield_values", "rb_yield_values2"}

UnderlyingOps == {"rb_yield", "rb_yield_splat", "each", "rb_funcallv", "rb_block_call"}

Invoked(c, names) == \E i \in 1..Len(c.trace) : c.trace[i].name \in names

LastInvocation(c) == c.trace[Len(c.trace)]

MissingBlockError(c) ==
  c.outcome = "raise" /\ c.err.class = "LocalJumpError" /\ c.err.msg = "no block given"

C3_OrderPreserved ==
  call.op \in {"rb_yield_values", "rb_yield_values2"}
    => LET ary == rb_tr_unwrap(call.splat)
       IN /\ ary[1] = "ary"
          /\ Len(ary[2]) = call.n
          /\ \A i \in 1..call.n : ary[2][i] = call.args[i]
          /\ LastInvocation(call).name =
               (IF call.frame = NilRef THEN "yield_no_block" ELSE "rb_yield_splat")
          /\ call.frame # NilRef => LastInvocation(call).args = <<ary>>

C3_Witness ==
  /\ call.op = "rb_yield_values" /\ call.n = MaxArgs /\ call.frame # NilRef
  /\ call.args[1] # call.args[MaxArgs]
  /\ call.outcome = "return"

\* C4: rb_error_arity, rb_iter_break and rb_iter_break_value never return to
\* their caller; when the host's rb_iter_break_value returns, the wrapper ends
\* in a fatal error
C4_NeverReturns ==
  call.op \in {"rb_error_arity", "rb_iter_break", "rb_iter_break_value"}
    => /\ call.outcome \in {"raise", "break", "fatal"}
       /\ call.op = "rb_error_arity" => call.outcome = "raise"
       /\ (call.op # "rb_error_arity" /\ call.mode = "returns") => call.outcome = "fatal"

C4_Witness ==
  call.op = "rb_iter_break" /\ call.mode = "returns" /\ call.outcome = "fatal"

\* C9 as stated: every missing-block error is raised by the bridge operation
\* yield_no_block, called with no argument; the native layer builds none
C9_AlwaysByBridge ==
  MissingBlockError(call)
    => /\ LastInvocation(call).name = "yield_no_block"
       /\ LastInvocation(call).args = <<>>
       /\ call.err.builtBy = "host"

\* C9 amended: the missing-block errors of rb_yield, rb_yield_splat,
\* rb_yield_values and rb_yield_values2 are raised by yield_no_block called
\* with no argument; rb_need_block builds LocalJumpError "no block given"
\* natively and does not invoke yield_no_block
C9_YieldByBridge ==
  /\ (call.op \in YieldFamily /\ call.outcome = "raise" /\ call.frame = NilRef)
       => /\ LastInvocation(call).name = "yield_no_block"
          /\ LastInvocation(call).args = <<>>
          /\ call.err.builtBy = "host"
  /\ (call.op = "rb_need_block" /\ call.frame = NilRef)
       => /\ MissingBlockError(call)
          /\ call.err.builtBy = "native"
          /\ ~Invoked(call, {"yield_no_block"})
  /\ (call.op = "rb_need_block" /\ call.frame # NilRef) => call.outcome = "return"

C9_Witness ==
  call.op = "rb_yield" /\ call.frame = NilRef /\ call.err.builtBy = "host"

\* the block a call of rb_block_call or rb_each supplies: the native callback
\* when there is one, else the active block of the frame
SuppliedBlock(c) == IF c.func # NullFn THEN c.func ELSE c.frame

ExplicitPath(c) == Invoked(c, {"rb_funcall_with_block"})

\* C7: two calls of rb_block_call (or rb_each) with the same receiver, method,
\* arguments and block have the same return value, error and block receiving
\* the yielded values, whether the block went to the host as an explicit proc
\* (rb_funcall_with_block) or by the generic path
C7_SameResultOnBothPaths ==
  ( /\ call.op \in {"rb_each", "rb_block_call"}
    /\ prev.op = call.op
    /\ prev.args = call.args
    /\ prev.mode = call.mode
    /\ SuppliedBlock(prev) = SuppliedBlock(call)
    /\ ExplicitPath(prev) # ExplicitPath(call) )
    => /\ prev.outcome = call.outcome
       /\ prev.ret = call.ret
       /\ prev.blk = call.blk

-----------------------------------------------------------------------------
(* The blocking-region calls, one action per step *)

\* rb_thread_call_without_gvl up to its bridge invocation: the two adapter
\* structures are locals of the running call
Call_rb_thread_call_without_gvl ==
  \E function \in GvlFunctions, data1 \in Data1,
     unblock_function \in UnblockFunctions, data2 \in Data2 :
    /\ gvl.pc \in {"idle", "returned"}
    /\ gvl' = [GvlIdle EXCEPT
         !.pc = "bridge", !.op = "rb_thread_call_without_gvl",
         !.function = function, !.data1 = data1,
         !.unblock_function = unblock_function, !.data2 = data2,
         !.call_struct = [function |-> function, data |-> data1],
         !.unblock_struct = [function |-> unblock_function, data |-> data2],
         !.live = TRUE,
         !.bridge = WithoutGvlArgs(function, data1, unblock_function, data2)]
    /\ UNCHANGED <<callVars, ivarVars, fmtVars>>

Call_rb_thread_call_with_gvl ==
  \E function \in GvlFunctions, data1 \in Data1 :
    /\ gvl.pc \in {"idle", "returned"}
    /\ gvl' = [GvlIdle EXCEPT
         !.pc = "bridge", !.op = "rb_thread_call_with_gvl",
         !.function = function, !.data1 = data1,
         !.bridge = WithGvlArgs(function, data1)]
    /\ UNCHANGED <<callVars, ivarVars, fmtVars>>

\* one call through a native pointer: who made it, the pointer, its argument,
\* and whether the adapter structures were alive
NativeCall(by, fn, arg) == [by |-> by, fn |-> fn, arg |-> arg, live |-> gvl.live]

\* call_gvl_call_function(data): s->function(s->data)
Run_call_gvl_call_function(data) ==
  <<NativeCall("host", call_gvl_call_function, data),
    NativeCall("call_gvl_call_function", gvl.call_struct.function, gvl.call_struct.data)>>

\* call_unblock_function(data): s->function(s->data)
Run_call_unblock_function(data) ==
  <<NativeCall("host", call_unblock_function, data),
    NativeCall("call_unblock_function", gvl.unblock_struct.function,
               gvl.unblock_struct.data)>>

\* what runs when the host calls pointer fn with arg
HostCalls(fn, arg) ==
  IF fn = call_gvl_call_function THEN Run_call_gvl_call_function(arg)
  ELSE IF fn = call_unblock_function THEN Run_call_unblock_function(arg)
  ELSE <<NativeCall("host", fn, arg)>>

\* the host enters the region and calls the function it was given
HostCallsFunction ==
  /\ gvl.pc = "bridge" /\ ~gvl.started
  /\ gvl' = [gvl EXCEPT !.started = TRUE,
                        !.ran = @ \o HostCalls(gvl.bridge[1], gvl.bridge[2])]
  /\ UNCHANGED <<callVars, ivarVars, fmtVars>>

\* another thread of the host interrupts the running region: the host's own
\* default when it was given nil, else the callback it was given.  A call
\* through a null pointer is undefined: the process dies or goes on.
HostCancels ==
  /\ gvl.pc = "bridge" /\ gvl.op = "rb_thread_call_without_gvl"
  /\ gvl.started /\ ~gvl.finished
  /\ gvl.cancels < MaxCancels
  /\ IF gvl.bridge[3] = NilRef
     THEN gvl' = [gvl EXCEPT !.cancels = @ + 1, !.defaults = @ + 1]
     ELSE LET calls == HostCalls(gvl.bridge[3], gvl.bridge[4])
          IN \E next \in (IF calls[Len(calls)].fn = NullFn
                          THEN {"crashed", "bridge"} ELSE {"bridge"}) :
               gvl' = [gvl EXCEPT !.cancels = @ + 1, !.ran = @ \o calls, !.pc = next]
  /\ UNCHANGED <<callVars, ivarVars, fmtVars>>

FunctionReturns ==
  /\ gvl.pc = "bridge" /\ gvl.started /\ ~gvl.finished
  /\ gvl' = [gvl EXCEPT !.finished = TRUE]
  /\ UNCHANGED <<callVars, ivarVars, fmtVars>>

\* polyglot_invoke returns, then the helper: its locals are gone
BridgeReturns ==
  /\ gvl.pc = "bridge" /\ gvl.finished
  /\ gvl' = [gvl EXCEPT !.pc = "returned", !.live = FALSE]
  /\ UNCHANGED <<callVars, ivarVars, fmtVars>>

GvlNext ==
  \/ Call_rb_thread_call_without_gvl
  \/ Call_rb_thread_call_with_gvl
  \/ HostCallsFunction
  \/ HostCancels
  \/ FunctionReturns
  \/ BridgeReturns

SpecGvl == Init /\ [][GvlNext]_vars

InArgs(x, args) == \E i \in 1..Len(args) : args[i] = x

CalledThrough(fn) == \E i \in 1..Len(gvl.ran) : gvl.ran[i].fn = fn

\* C2: with the sentinel RUBY_UBF_IO the host is given its nil as the
\* cancellation argument, the sentinel is no argument of the bridge
\* invocation, and nothing calls through the sentinel, a cancellation by the
\* host included
C2_SentinelNeverCalled ==
  (gvl.op = "rb_thread_call_without_gvl" /\ gvl.unblock_function = RUBY_UBF_IO)
    => /\ gvl.bridge[3] = NilRef
       /\ ~InArgs(RUBY_UBF_IO, gvl.bridge)
       /\ ~CalledThrough(RUBY_UBF_IO)
       /\ ~CalledThrough(call_unblock_function)

C2_Witness ==
  /\ gvl.op = "rb_thread_call_without_gvl" /\ gvl.unblock_function = RUBY_UBF_IO
  /\ gvl.defaults = MaxCancels /\ gvl.pc = "returned"

\* C8 as stated: both helpers hand the host a trampoline and a pointer to an
\* adapter structure; the caller's function pointer is no bridge argument
C8_BothHelpersWrap ==
  gvl.pc = "bridge"
    => /\ gvl.bridge[1] = call_gvl_call_function
       /\ gvl.bridge[2] = CallStructPtr
       /\ ~InArgs(gvl.function, gvl.bridge)

\* C8 amended: rb_thread_call_without_gvl hands the host the trampoline
\* call_gvl_call_function with a pointer to the adapter holding (function,
\* data1), and nil or the trampoline call_unblock_function with a pointer to
\* the adapter holding (unblock_function, data2); neither caller's pointer is
\* a bridge argument, and the adapters are alive during the whole bridge call
\* and at every call made through them.  rb_thread_call_with_gvl hands the
\* host the caller's function and data themselves, with no adapter.
C8_WithoutGvlWraps ==
  /\ gvl.op = "rb_thread_call_without_gvl"
       => /\ gvl.bridge[1] = call_gvl_call_function
          /\ gvl.bridge[2] = CallStructPtr
          /\ gvl.bridge[3] \in {NilRef, call_unblock_function}
          /\ gvl.bridge[4] = UnblockStructPtr
          /\ gvl.call_struct = [function |-> gvl.function, data |-> gvl.data1]
          /\ gvl.unblock_struct = [function |-> gvl.unblock_function, data |-> gvl.data2]
          /\ ~InArgs(gvl.function, gvl.bridge)
          /\ ~InArgs(gvl.unblock_function, gvl.bridge)
          /\ gvl.pc = "bridge" => gvl.live
          /\ \A i \in 1..Len(gvl.ran) : gvl.ran[i].live
          /\ gvl.started => /\ gvl.ran[1].fn = call_gvl_call_function
                            /\ gvl.ran[2].fn = gvl.function
                            /\ gvl.ran[2].arg = gvl.data1
  /\ gvl.op = "rb_thread_call_with_gvl"
       => /\ gvl.bridge = <<gvl.function, gvl.data1>>
          /\ gvl.started => gvl.ran = <<NativeCall("host", gvl.function, gvl.data1)>>

C8_Witness ==
  /\ gvl.op = "rb_thread_call_without_gvl" /\ gvl.pc = "bridge" /\ gvl.finished
  /\ gvl.unblock_function \notin {NullFn, RUBY_UBF_IO}
  /\ gvl.cancels = MaxCancels

\* C10: with unblock_function NULL, whatever the host's cancellations during
\* the region, every native function pointer called is non-null
C10_NoNullCall ==
  (gvl.op = "rb_thread_call_without_gvl" /\ gvl.unblock_function = NullFn)
    => ~CalledThrough(NullFn)

-----------------------------------------------------------------------------
(* The calls of ivar.c, one action per function *)

IdOfName(name) == rb_intern(name)

IvFinish(op, object, name, value, default, r) ==
  /\ iv' = [op |-> op, object |-> object, name |-> name, value |-> value,
            default |-> default, wasSet |-> lastSet[rb_tr_unwrap(object)][name],
            ret |-> r.ret, trace |-> r.trace]
  /\ ivars' = r.store
  /\ lastSet' = IF op \in {"rb_iv_set", "rb_ivar_set"}
                THEN [lastSet EXCEPT ![rb_tr_unwrap(object)][name] = rb_tr_unwrap(value)]
                ELSE lastSet
  /\ UNCHANGED <<callVars, gvlVars, fmtVars>>

IvHandles == {rb_tr_wrap(o) : o \in IvObjects}

Call_rb_iv_set ==
  \E o \in IvHandles, name \in IvNames, v \in IvValues :
    IvFinish("rb_iv_set", o, name, v, Qnil, rb_iv_set(o, name, v, ivars, "by_name"))

Call_rb_ivar_set ==
  \E o \in IvHandles, name \in IvNames, v \in IvValues :
    IvFinish("rb_ivar_set", o, name, v, Qnil,
             rb_ivar_set(o, IdOfName(name), v, ivars, "by_name"))

Call_rb_iv_get ==
  \E o \in IvHandles, name \in IvNames :
    IvFinish("rb_iv_get", o, name, Qnil, Qnil, rb_iv_get(o, name, ivars, "by_name"))

Call_rb_ivar_get ==
  \E o \in IvHandles, name \in IvNames :
    IvFinish("rb_ivar_get", o, name, Qnil, Qnil,
             rb_ivar_get(o, IdOfName(name), ivars, "by_name"))

Call_rb_ivar_lookup ==
  \E o \in IvHandles, name \in IvNames, d \in IvValues, mode \in KeyModes :
    IvFinish("rb_ivar_lookup", o, name, Qnil, d, rb_ivar_lookup(o, name, d, ivars, mode))

Call_rb_attr_get ==
  \E o \in IvHandles, name \in IvNames :
    IvFinish("rb_attr_get", o, name, Qnil, Qnil,
             rb_attr_get(o, IdOfName(name), ivars, "by_name"))

IvarNext ==
  \/ Call_rb_iv_set
  \/ Call_rb_ivar_set
  \/ Call_rb_iv_get
  \/ Call_rb_ivar_get
  \/ Call_rb_ivar_lookup
  \/ Call_rb_attr_get

SpecIvar == Init /\ [][IvarNext]_vars

-----------------------------------------------------------------------------
(* The calls of printf.c, one action per function, no format argument given *)

FmtFinish(op, enc, format, v, r) ==
  /\ fmt' = [op |-> op, enc |-> enc, format |-> format, rc |-> v.rc,
             outcome |-> r.outcome, string |-> r.string]
  /\ UNCHANGED <<callVars, gvlVars, ivarVars>>

\* everything vasprintf can do on the format strings of the model
VasprintfResults == UNION {vasprintf(format) : format \in Formats}

Call_rb_enc_vsprintf ==
  \E enc \in Encodings, format \in Formats, v \in VasprintfResults :
    /\ v \in vasprintf(format)
    /\ FmtFinish("rb_enc_vsprintf", enc, format, v, rb_enc_vsprintf(enc, format, v))

Call_rb_enc_sprintf ==
  \E enc \in Encodings, format \in Formats, v \in VasprintfResults :
    /\ v \in vasprintf(format)
    /\ FmtFinish("rb_enc_sprintf", enc, format, v, rb_enc_sprintf(enc, format, v))

Call_rb_sprintf ==
  \E format \in Formats, v \in VasprintfResults :
    /\ v \in vasprintf(format)
    /\ FmtFinish("rb_sprintf", "default", format, v, rb_sprintf(format, v))

Call_rb_vsprintf ==
  \E format \in Formats, v \in VasprintfResults :
    /\ v \in vasprintf(format)
    /\ FmtFinish("rb_vsprintf", "default", format, v, rb_vsprintf(format, v))

FmtNext ==
  \/ Call_rb_enc_vsprintf
  \/ Call_rb_enc_sprintf
  \/ Call_rb_sprintf
  \/ Call_rb_vsprintf

SpecPrintf == Init /\ [][FmtNext]_vars

HasPercent(format) == \E i \in 1..Len(format) : format[i] = "%"

ExpectedEncoding(c) ==
  IF c.op \in {"rb_sprintf", "rb_vsprintf"} THEN "ASCII-8BIT" ELSE c.enc

\* the format strings whose conversion the C library defines
Defined(format) == Expand(format, 1)[1]

\* C6 as stated, for the format strings whose formatting is defined: with no
\* format argument the format string comes back unchanged, tagged with enc
\* (rb_enc_*) or ASCII-8BIT (rb_sprintf, rb_vsprintf), and a failure of the
\* formatting is fatal
C6_FormatUnchanged ==
  (fmt.op # "none" /\ Defined(fmt.format))
    => /\ fmt.outcome = "return"
           => (fmt.string.bytes = fmt.format /\ fmt.string.enc = ExpectedEncoding(fmt))
       /\ fmt.rc < 0 => fmt.outcome = "fatal"

\* C6 amended: with no format argument, a format string without a percent
\* sign comes back unchanged; every returned string is tagged with enc
\* (rb_enc_*) or ASCII-8BIT (rb_sprintf, rb_vsprintf); a failure of the
\* formatting is fatal and returns no string
C6_PlainFormatUnchanged ==
  fmt.op # "none"
    => /\ (fmt.outcome = "return" /\ ~HasPercent(fmt.format))
           => fmt.string.bytes = fmt.format
       /\ fmt.outcome = "return" => fmt.string.enc = ExpectedEncoding(fmt)
       /\ ~HasPercent(fmt.format) => fmt.outcome \in {"return", "fatal"}
       /\ fmt.rc < 0 => (fmt.outcome = "fatal" /\ fmt.string = NoString)

C6_Witness ==
  /\ fmt.op = "rb_sprintf" /\ fmt.outcome = "return"
  /\ Len(fmt.format) = MaxFormat /\ ~HasPercent(fmt.format)
  /\ fmt.string.enc = "ASCII-8BIT"

====
